---------------------------- MODULE Spec2Model ----------------------------
(***************************************************************************)
(* Model of the magic-spell game: the App ledger (mana, experience,        *)
(* level), the hand-data feed, and the MagicSpellSystem component (cast    *)
(* state machine, projectiles, scarecrow target, combo counter).           *)
(*                                                                         *)
(* React is modelled as it schedules the code.  A state variable holds the *)
(* value of its hook after every queued update has been applied, in queue  *)
(* order.  `rendered' holds the values the last committed render read:     *)
(* these are what the closures of that render (the effects, castSpell)     *)
(* see.  Render commits a new snapshot and marks the effects whose         *)
(* dependencies changed; RunEffects runs the marked effects against the    *)
(* snapshot.  Timers, animation frames and detection cycles are steps of   *)
(* their own and may fall between a commit and its passive effects.        *)
(*                                                                         *)
(* Positions are taken along the straight line from the index finger tip   *)
(* to the target (the projectile never leaves it), so Math.hypot(dx, dy)   *)
(* is |targetX - x|.  Wall-clock delays are abstracted: a pending timer    *)
(* may fire at any later step; Date.now() is the detection-cycle count.    *)
(*                                                                         *)
(* Specifications: Spec and LiveSpec are the whole game with the camera    *)
(* on; StopSpec adds the camera being switched off; ComboSpec starts in    *)
(* mid-combo; FlightSpec follows projectiles from every spawn point;       *)
(* LiveFlightSpec the same with frames kept coming; DefeatSpec is a defeat *)
(* with a second projectile behind it;                                     *)
(* LedgerSpec is the ledger alone, LiveLedgerSpec the same with fairness;  *)
(* ParticleSpec follows one long flight; ClassifierSpec is detectGesture   *)
(* alone; CameraSpec is the camera and the hand tracking alone, from the   *)
(* moment the camera is enabled.                                           *)
(***************************************************************************)
EXTENDS Integers, Sequences, FiniteSets, TLC

(* ------------------------------ bounds -------------------------------- *)
\* detection cycles (hand-data publications) in one behaviour
MaxCycles == 4
\* mana-regeneration interval callbacks in one behaviour
MaxTicks == 1
\* interval callbacks and rewards in one behaviour of the ledger alone
MaxLedgerTicks == 5
MaxRewards == 2
\* landmark y coordinates: the tips range over 0..MaxY, every other point
\* (the proximal joints among them) is at JointY
MaxY == 2
JointY == 1

(* ------------------------- program constants -------------------------- *)
MaxMana == 100
RegenAmount == 2
MaxHealth == 500
HitRadius == 30
ProjectileSpeed == 15
HitExperience == 5
DefeatExperience == 50
LevelExperience == 100
\* window.innerWidth of the modelled viewport; the scarecrow stands at 3/4
InnerWidth == 80

Min(a, b) == IF a < b THEN a ELSE b
Max(a, b) == IF a > b THEN a ELSE b
Abs(a) == IF a < 0 THEN 0 - a ELSE a

(* ------------------------------ catalog ------------------------------- *)
SPELLS ==
    << [id |-> "fireball",  damage |-> 30, manaCost |-> 15,
        gesture |-> "point", chargeTime |-> 1000],
       [id |-> "waterwave", damage |-> 20, manaCost |-> 10,
        gesture |-> "peace", chargeTime |-> 800],
       [id |-> "lightning", damage |-> 40, manaCost |-> 20,
        gesture |-> "rock",  chargeTime |-> 1500] >>

\* currentSpell is null or one of the catalog entries; the model holds its id
NoSpell == "null"
SpellIds == {SPELLS[i].id : i \in 1..Len(SPELLS)}
SpellById(id) == CHOOSE s \in {SPELLS[i] : i \in 1..Len(SPELLS)} : s.id = id

\* faulty variant: the first catalog entry where no entry matches
FindSpell_Default(gesture) ==
    LET hits == {i \in 1..Len(SPELLS) : SPELLS[i].gesture = gesture}
    IN  IF hits = {} THEN SPELLS[1].id
        ELSE SPELLS[CHOOSE i \in hits : \A j \in hits : i <= j].id

\* SPELLS.find(s => s.gesture === gesture): the first match, or null
FindSpell(gesture) ==
    LET hits == {i \in 1..Len(SPELLS) : SPELLS[i].gesture = gesture}
    IN  IF hits = {} THEN NoSpell
        ELSE SPELLS[CHOOSE i \in hits : \A j \in hits : i <= j].id

Gestures == {"none", "fist", "palm", "point", "peace", "rock", "unknown"}

\* x of keypoints[8] (index finger tip) in screen coordinates
IndexXs == {20}

\* handData: null, or a hand with its gesture and index-tip position
NoHand == [present |-> FALSE, gesture |-> "none", x |-> 0]
Hand(g, x) == [present |-> TRUE, gesture |-> g, x |-> x]

\* window.innerWidth * 0.75
CanonicalX == (InnerWidth * 3) \div 4
FreshScarecrow == [x |-> CanonicalX, health |-> MaxHealth, maxHealth |-> MaxHealth]

VARIABLES
    mana, experience, level,        \* App state
    handData,                       \* useTensorFlowHandTracking state
    scarecrow, projectiles,         \* MagicSpellSystem state
    currentSpell, isCharging,
    comboCount, hitCount,
    chargeStartTime, lastGestureRef, comboCountRef,   \* refs
    comboTimers, respawnTimers,     \* pending setTimeout callbacks
    rendered,                       \* values read by the last committed render
    fresh,                          \* objects replaced since that render
    pendingEffects,                 \* effects committed and not yet run
    now, ticks,                     \* detection cycles / regen callbacks so far
    defeats, defeatRewards,         \* history: health reaching 0, +50 grants
    cameraEnabled,                  \* useStore state: the camera toggle
    landmarks,                      \* the prediction detectGesture is given
    start, rewardLog,               \* history: the ledger at the start, and
                                    \* the rewards LedgerReward has applied
    labelLog,                       \* history: each detectGesture call made,
                                    \* its input and the label it returned
    prevEvaluated,                  \* history: what the last run of the gesture
                                    \* effect saw, "none" where no hand
    castCount,                      \* history: the casts that passed castSpell's
                                    \* guard
    camera,                         \* useCameraDevice: state, streamRef, the
                                    \* getUserMedia requests and streams
    tracking                        \* useTensorFlowHandTracking: the model,
                                    \* the video, the detection loops

vars == << mana, experience, level, handData, scarecrow, projectiles,
           currentSpell, isCharging, comboCount, hitCount, chargeStartTime,
           lastGestureRef, comboCountRef, comboTimers, respawnTimers,
           rendered, fresh, pendingEffects, now, ticks, defeats, defeatRewards,
           cameraEnabled, landmarks, start, rewardLog, labelLog,
           prevEvaluated, castCount, camera, tracking >>

\* what the steps other than the gesture effect leave alone: the camera
\* toggle, the classifier's input and the histories
bystanders == << cameraEnabled, landmarks, start, rewardLog, labelLog,
                 prevEvaluated, castCount, camera, tracking >>

\* a MediaStream is the number of its acquisition, 0 is null.  The camera
\* is on, its stream referenced and live, and one detection loop waits for
\* its next animation frame
DevicesRunning ==
    /\ camera = [selectedDeviceId |-> "cam1", stream |-> 1, streamRef |-> 1,
                 live |-> {1}, acquired |-> 1, requests |-> 0, toggles |-> 0,
                 deps |-> << TRUE, 1, "cam1" >>]
    /\ tracking = [modelReady |-> TRUE, videoSrc |-> 1, loops |-> << "frame" >>,
                   animationFrameRef |-> 1, stopped |-> FALSE,
                   deps |-> << 1, TRUE, TRUE >>]

Snapshot(m, h, sc, cs, ic) ==
    [mana |-> m, handData |-> h, scarecrow |-> sc,
     currentSpell |-> cs, isCharging |-> ic]

NoneFresh == [handData |-> FALSE, scarecrow |-> FALSE, app |-> FALSE]
\* stale: the gesture effect is due again for the hand data its last run saw
NoEffects == [respawn |-> FALSE, gesture |-> FALSE, stale |-> FALSE]

(***************************************************************************)
(* Sessions the model starts from: the state after construction, and a     *)
(* quiescent state of a longer session (hand out of view, nothing in       *)
(* flight, every timer fired) in which 23 water waves and one fireball,    *)
(* each landing after its own combo decay, have taken the scarecrow from   *)
(* 500 to 500 - 23 * 20 - 30 = 10 and given 24 * 5 = 120 experience        *)
(* (level 2, 20 left), and spending and regeneration have left 18 mana.    *)
(***************************************************************************)
Sessions ==
    { [mana |-> 100, health |-> 500, hits |-> 0,  experience |-> 0,
       level |-> 1, lastGesture |-> "none"],
      [mana |-> 18,  health |-> 10,  hits |-> 24, experience |-> 20,
       level |-> 2, lastGesture |-> "palm"] }

\* a state between two events of session s in a viewport that puts the
\* scarecrow at x: every render committed and every effect run, the camera on
\* and detection running, the hand as last published, `shots' in flight and
\* `combo' casts waiting for their decay
SessionStateAt(s, hand, shots, combo, x) ==
    /\ mana = s.mana
    /\ experience = s.experience
    /\ level = s.level
    /\ handData = hand
    /\ scarecrow = [FreshScarecrow EXCEPT !.health = s.health, !.x = x]
    /\ projectiles = shots
    /\ currentSpell = NoSpell
    /\ isCharging = FALSE
    /\ comboCount = combo
    /\ hitCount = s.hits
    /\ chargeStartTime = 0
    /\ lastGestureRef = s.lastGesture
    /\ comboCountRef = combo
    /\ comboTimers = combo
    /\ respawnTimers = 0
    /\ rendered = Snapshot(s.mana, hand,
                           [FreshScarecrow EXCEPT !.health = s.health, !.x = x],
                           NoSpell, FALSE)
    /\ fresh = NoneFresh
    /\ pendingEffects = NoEffects
    /\ now = 0
    /\ ticks = 0
    /\ defeats = 0
    /\ defeatRewards = 0
    /\ cameraEnabled = TRUE
    /\ start = [mana |-> s.mana, experience |-> s.experience, level |-> s.level]
    /\ rewardLog = << >>
    /\ labelLog = << >>
    /\ prevEvaluated = hand.gesture
    /\ castCount = s.hits + Len(shots)

\* the same in the viewport of InnerWidth
SessionState(s, hand, shots, combo) ==
    SessionStateAt(s, hand, shots, combo, CanonicalX)

Init ==
    /\ landmarks = << >>
    /\ DevicesRunning
    /\ \E s \in Sessions : SessionState(s, NoHand, << >>, 0)

(* ----------------------------- App ledger ------------------------------ *)

\* faulty variant: the regeneration without its cap
Regen_NoClamp(m) == m + RegenAmount

\* faulty variant: a regeneration of one point
Regen_Slow(m) == Min(MaxMana, m + 1)

\* setMana((prev) => Math.min(100, prev + 2))
Regen(m) == Min(MaxMana, m + RegenAmount)

\* faulty variant: the level-up test made strict
handleExperienceGain_Strict(e, l, exp) ==
    LET newExp == e + exp
    IN  IF newExp > LevelExperience
        THEN [experience |-> newExp - LevelExperience, level |-> l + 1]
        ELSE [experience |-> newExp, level |-> l]

\* faulty variant: the level raised and the experience left unwrapped
handleExperienceGain_NoWrap(e, l, exp) ==
    LET newExp == e + exp
    IN  IF newExp >= LevelExperience
        THEN [experience |-> newExp, level |-> l + 1]
        ELSE [experience |-> newExp, level |-> l]

\* {experience >= 100 && ( ... Level Up! ... )}: the notification is rendered
LevelUpShown(e) == e >= LevelExperience

\* handleExperienceGain: one setExperience update, with its nested setLevel
handleExperienceGain(e, l, exp) ==
    LET newExp == e + exp
    IN  IF newExp >= LevelExperience
        THEN [experience |-> newExp - LevelExperience, level |-> l + 1]
        ELSE [experience |-> newExp, level |-> l]

\* the interval callback of the mana-regeneration effect
ManaRegen ==
    /\ ticks < MaxTicks
    /\ ticks' = ticks + 1
    /\ mana' = Regen(mana)
    /\ UNCHANGED << experience, level, handData, scarecrow, projectiles,
                    currentSpell, isCharging, comboCount, hitCount,
                    chargeStartTime, lastGestureRef, comboCountRef, comboTimers,
                    respawnTimers, rendered, fresh, pendingEffects, now,
                    defeats, defeatRewards >>
    /\ UNCHANGED bystanders

(* ------------------------- gesture classifier -------------------------- *)
\* KEYPOINT_NAMES.length: a prediction has 21 landmarks
KeypointCount == 21

\* landmarks[i][1]: the y coordinate of landmark i (the source counts from 0)
Y(l, i) == l[i + 1]

\* faulty variant: the comparison taken the wrong way round (y grows downwards)
IsExtended_Below(tip, joint) == tip > joint

\* faulty variant: a tip level with its joint counted as extended
IsExtended_OrEqual(tip, joint) == tip <= joint

\* tip[1] < landmarks[joint][1]
IsExtended(tip, joint) == tip < joint

\* faulty variant: the count leaving out the thumb
ExtendedCount_NoThumb(flags) ==
    Cardinality({i \in 2..Len(flags) : flags[i]})

\* [ ... ].filter(Boolean).length
ExtendedCount(flags) == Cardinality({i \in 1..Len(flags) : flags[i]})

\* faulty variant: a classifier that keeps the label it published last when
\* the hand matches no rule
detectGesture_Sticky(l) ==
    IF Len(l) = 0 THEN "none"
    ELSE
    LET isThumbExtended  == IsExtended(Y(l, 4),  Y(l, 2))
        isIndexExtended  == IsExtended(Y(l, 8),  Y(l, 6))
        isMiddleExtended == IsExtended(Y(l, 12), Y(l, 10))
        isRingExtended   == IsExtended(Y(l, 16), Y(l, 14))
        isPinkyExtended  == IsExtended(Y(l, 20), Y(l, 18))
        extendedCount == ExtendedCount(<< isThumbExtended, isIndexExtended,
                                          isMiddleExtended, isRingExtended,
                                          isPinkyExtended >>)
    IN  IF /\ ~isIndexExtended /\ ~isMiddleExtended
           /\ ~isRingExtended /\ ~isPinkyExtended
        THEN "fist"
        ELSE IF extendedCount = 5
        THEN "palm"
        ELSE IF /\ isIndexExtended /\ ~isMiddleExtended
                /\ ~isRingExtended /\ ~isPinkyExtended
        THEN "point"
        ELSE IF /\ isIndexExtended /\ isMiddleExtended
                /\ ~isRingExtended /\ ~isPinkyExtended
        THEN "peace"
        ELSE IF /\ isThumbExtended /\ isIndexExtended /\ isPinkyExtended
                /\ ~isMiddleExtended /\ ~isRingExtended
        THEN "rock"
        ELSE IF handData.present THEN handData.gesture
        ELSE "unknown"

detectGesture(l) ==
    IF Len(l) = 0 THEN "none"
    ELSE
    LET isThumbExtended  == IsExtended(Y(l, 4),  Y(l, 2))
        isIndexExtended  == IsExtended(Y(l, 8),  Y(l, 6))
        isMiddleExtended == IsExtended(Y(l, 12), Y(l, 10))
        isRingExtended   == IsExtended(Y(l, 16), Y(l, 14))
        isPinkyExtended  == IsExtended(Y(l, 20), Y(l, 18))
        extendedCount == ExtendedCount(<< isThumbExtended, isIndexExtended,
                                          isMiddleExtended, isRingExtended,
                                          isPinkyExtended >>)
    IN  IF /\ ~isIndexExtended /\ ~isMiddleExtended
           /\ ~isRingExtended /\ ~isPinkyExtended
        THEN "fist"
        ELSE IF extendedCount = 5
        THEN "palm"
        ELSE IF /\ isIndexExtended /\ ~isMiddleExtended
                /\ ~isRingExtended /\ ~isPinkyExtended
        THEN "point"
        ELSE IF /\ isIndexExtended /\ isMiddleExtended
                /\ ~isRingExtended /\ ~isPinkyExtended
        THEN "peace"
        ELSE IF /\ isThumbExtended /\ isIndexExtended /\ isPinkyExtended
                /\ ~isMiddleExtended /\ ~isRingExtended
        THEN "rock"
        ELSE "unknown"

\* the landmark sets given to the classifier: the empty one, and every
\* placing of the five tips above, level with or below the joints
TipIndices == {4, 8, 12, 16, 20}
LandmarkSets ==
    { << >> } \cup
    { [i \in 1..KeypointCount |->
          IF (i - 1) \in TipIndices THEN tips[i - 1] ELSE JointY] :
      tips \in [TipIndices -> 0..MaxY] }

(* --------------------------- hand-data feed ---------------------------- *)
\* detectHands, predictions.length > 0: setHandData(a new object)
HandSeen ==
    /\ cameraEnabled
    /\ now < MaxCycles
    /\ \E g \in Gestures, x \in IndexXs :
           handData' = Hand(g, x)
    /\ fresh' = [fresh EXCEPT !.handData = TRUE]
    /\ now' = now + 1
    /\ UNCHANGED << mana, experience, level, scarecrow, projectiles,
                    currentSpell, isCharging, comboCount, hitCount,
                    chargeStartTime, lastGestureRef, comboCountRef, comboTimers,
                    respawnTimers, rendered, pendingEffects, ticks,
                    defeats, defeatRewards >>
    /\ UNCHANGED bystanders

\* detectHands, no prediction: setHandData(null); null is identical to null
HandLost ==
    /\ cameraEnabled
    /\ now < MaxCycles
    /\ handData' = NoHand
    /\ fresh' = [fresh EXCEPT !.handData = rendered.handData.present]
    /\ now' = now + 1
    /\ UNCHANGED << mana, experience, level, scarecrow, projectiles,
                    currentSpell, isCharging, comboCount, hitCount,
                    chargeStartTime, lastGestureRef, comboCountRef, comboTimers,
                    respawnTimers, rendered, pendingEffects, ticks,
                    defeats, defeatRewards >>
    /\ UNCHANGED bystanders

(* ------------------------------- render -------------------------------- *)
\* App re-renders when one of its hooks changed; each App render makes a new
\* handleExperienceGain (it is not wrapped in useCallback)
AppRenders == mana # rendered.mana \/ fresh.handData \/ fresh.app

\* deps of the gesture effect: [handData, isCharging, currentSpell, mana,
\* castSpell], castSpell changing with [handData, scarecrow, mana, onManaChange]
GestureDepsChanged ==
    \/ fresh.handData
    \/ isCharging # rendered.isCharging
    \/ currentSpell # rendered.currentSpell
    \/ mana # rendered.mana
    \/ fresh.scarecrow

\* deps of the respawn effect: [scarecrow.health, onExperienceGain]
RespawnDepsChanged ==
    \/ scarecrow.health # rendered.scarecrow.health
    \/ AppRenders

NeedsRender == AppRenders \/ GestureDepsChanged \/ RespawnDepsChanged

\* a render is committed: passive effects of the previous commit have been
\* flushed before it starts
Render ==
    /\ pendingEffects = NoEffects
    /\ NeedsRender
    /\ rendered' = Snapshot(mana, handData, scarecrow, currentSpell, isCharging)
    /\ pendingEffects' = [respawn |-> RespawnDepsChanged,
                          gesture |-> GestureDepsChanged,
                          stale |-> GestureDepsChanged /\ ~fresh.handData]
    /\ fresh' = NoneFresh
    /\ UNCHANGED << mana, experience, level, handData, scarecrow, projectiles,
                    currentSpell, isCharging, comboCount, hitCount,
                    chargeStartTime, lastGestureRef, comboCountRef, comboTimers,
                    respawnTimers, now, ticks, defeats, defeatRewards >>
    /\ UNCHANGED bystanders

(* ------------------------ cast state machine --------------------------- *)

\* faulty variant: the respawn test made strict
ShouldRespawn_Strict(health) == health < 0

\* if (scarecrow.health <= 0) in the respawn effect
ShouldRespawn(health) == health <= 0

\* faulty variant: the charge start without its test of the previous gesture
ChargeStarts_AnyPrev(lastGesture, gesture) ==
    gesture # "fist" /\ gesture # "none"

\* lastGesture === 'fist' && gesture !== 'fist' && gesture !== 'none'
ChargeStarts(lastGesture, gesture) ==
    lastGesture = "fist" /\ gesture # "fist" /\ gesture # "none"

\* faulty variants: the affordability test made strict, and dropped
CanAfford_Strict(m, spell) == m > spell.manaCost
CanAfford_Always(m, spell) == TRUE

\* spell && mana >= spell.manaCost
CanAfford(m, spell) == m >= spell.manaCost

\* faulty variant: the release without its test of isCharging
Releases_NoCharge(charging, gesture, spell) ==
    gesture = "palm" /\ spell # NoSpell

\* faulty variant: the release honoured only from the second detection cycle
\* after the charge start
Releases_FullCharge(charging, gesture, spell) ==
    charging /\ gesture = "palm" /\ spell # NoSpell
             /\ now - chargeStartTime >= 2

\* isCharging && gesture === 'palm' && currentSpell
Releases(charging, gesture, spell) ==
    charging /\ gesture = "palm" /\ spell # NoSpell

\* castSpell's guard: if (!handData || mana < spell.manaCost) return
CastRejected(h, m, spell) == ~h.present \/ m < spell.manaCost

\* onManaChange(mana - spell.manaCost)
ManaAfterCast(m, spell) == m - spell.manaCost

\* faulty variant: the charge kept when the hand is lost
ChargingWithoutHand_Keep(charging) == charging

\* what the gesture effect stores in isCharging when handData is null
ChargingWithoutHand(charging) == FALSE

\* the projectile castSpell creates; three fields are records for the
\* properties only: castCombo, the combo count this cast raised the counter
\* to; spawnX, where it was created; age, the frames that have advanced it
NewProjectile(spell, h, sc, t, combo) ==
    [id |-> t, spell |-> spell, x |-> h.x, targetX |-> sc.x,
     speed |-> ProjectileSpeed, particles |-> << >>, castCombo |-> combo,
     spawnX |-> h.x, age |-> 0]

\* the decision of one run of the gesture effect, from the values of the
\* render that scheduled it and the refs
GestureStep ==
    LET h == rendered.handData
        g == h.gesture
        found == FindSpell(g)
        starts == /\ h.present
                  /\ ChargeStarts(lastGestureRef, g)
                  /\ found # NoSpell
                  /\ CanAfford(rendered.mana, SpellById(found))
        releases == /\ h.present
                    /\ Releases(rendered.isCharging, g, rendered.currentSpell)
        casts == /\ releases
                 /\ ~CastRejected(h, rendered.mana,
                                  SpellById(rendered.currentSpell))
    IN  [starts |-> starts, releases |-> releases, casts |-> casts,
         spell |-> IF starts THEN found ELSE rendered.currentSpell]

\* the passive effects of the last commit, in the order the component
\* declares them: the respawn effect, then the gesture effect
RunEffects ==
    /\ pendingEffects # NoEffects
    /\ pendingEffects' = NoEffects
    /\ respawnTimers' =
           IF pendingEffects.respawn /\ ShouldRespawn(rendered.scarecrow.health)
           THEN respawnTimers + 1 ELSE respawnTimers
    /\ IF ~pendingEffects.gesture
       THEN UNCHANGED << mana, projectiles, currentSpell, isCharging,
                         comboCount, chargeStartTime, lastGestureRef,
                         comboCountRef, comboTimers >>
       ELSE LET d == GestureStep
                h == rendered.handData
            IN  /\ isCharging' =
                       IF ~h.present THEN ChargingWithoutHand(isCharging)
                       ELSE IF d.starts THEN TRUE
                       ELSE IF d.releases THEN FALSE
                       ELSE isCharging
                /\ currentSpell' =
                       IF d.starts THEN d.spell
                       ELSE IF d.casts THEN NoSpell
                       ELSE currentSpell
                /\ chargeStartTime' = IF d.starts THEN now ELSE chargeStartTime
                /\ lastGestureRef' = IF h.present THEN h.gesture ELSE lastGestureRef
                /\ IF d.casts
                   THEN /\ mana' = ManaAfterCast(rendered.mana, SpellById(d.spell))
                        /\ projectiles' =
                               Append(projectiles,
                                      NewProjectile(d.spell, h, rendered.scarecrow,
                                                    now, comboCountRef + 1))
                        /\ comboCountRef' = comboCountRef + 1
                        /\ comboCount' = comboCountRef + 1
                        /\ comboTimers' = comboTimers + 1
                   ELSE UNCHANGED << mana, projectiles, comboCountRef,
                                     comboCount, comboTimers >>
    /\ prevEvaluated' =
           IF pendingEffects.gesture THEN rendered.handData.gesture
           ELSE prevEvaluated
    /\ castCount' =
           IF pendingEffects.gesture /\ GestureStep.casts THEN castCount + 1
           ELSE castCount
    /\ UNCHANGED << experience, level, handData, scarecrow, hitCount,
                    rendered, fresh, now, ticks, defeats, defeatRewards,
                    cameraEnabled, landmarks, start, rewardLog, labelLog,
                    camera, tracking >>

(* ------------------------------- timers -------------------------------- *)
\* faulty variant: the decay dropping the whole combo
ComboAfterDecay_Reset(c) == 0

\* Math.max(0, comboCountRef.current - 1)
ComboAfterDecay(c) == Max(0, c - 1)

\* the 5000 ms callback a cast schedules
ComboDecay ==
    /\ comboTimers > 0
    /\ comboTimers' = comboTimers - 1
    /\ comboCountRef' = ComboAfterDecay(comboCountRef)
    /\ comboCount' = ComboAfterDecay(comboCountRef)
    /\ UNCHANGED << mana, experience, level, handData, scarecrow, projectiles,
                    currentSpell, isCharging, hitCount, chargeStartTime,
                    lastGestureRef, respawnTimers, rendered, fresh,
                    pendingEffects, now, ticks, defeats, defeatRewards >>
    /\ UNCHANGED bystanders

\* the 1500 ms callback the respawn effect schedules
RespawnFire ==
    /\ respawnTimers > 0
    /\ respawnTimers' = respawnTimers - 1
    /\ scarecrow' = FreshScarecrow
    /\ LET g == handleExperienceGain(experience, level, DefeatExperience)
       IN  experience' = g.experience /\ level' = g.level
    /\ fresh' = [fresh EXCEPT !.scarecrow = TRUE, !.app = TRUE]
    /\ defeatRewards' = defeatRewards + 1
    /\ UNCHANGED << mana, handData, projectiles, currentSpell, isCharging,
                    comboCount, hitCount, chargeStartTime, lastGestureRef,
                    comboCountRef, comboTimers, rendered, pendingEffects,
                    now, ticks, defeats >>
    /\ UNCHANGED bystanders

(* --------------------------- animation frame --------------------------- *)
\* Math.hypot(dx, dy) along the line of flight
Dist(p) == Abs(p.targetX - p.x)

\* faulty variant: a hit radius smaller than one step of the projectile
IsHit_Near(p) == Dist(p) < 10

\* faulty variant: the hit tested on the position after the move
IsHit_AfterMove(p) == Abs(Dist(p) - p.speed) < HitRadius

\* dist < 30
IsHit(p) == Dist(p) < HitRadius

\* faulty variant: the multiplier taken from the combo count at cast time
Damage_AtCast(p, combo) == (SpellById(p.spell).damage * (10 + p.castCombo)) \div 10

\* spell.damage * (1 + comboCountRef.current * 0.1); every catalog damage is a
\* multiple of 10, so the product is the integer below
Damage(p, combo) == (SpellById(p.spell).damage * (10 + combo)) \div 10

\* faulty variant: the health without its floor
HealthAfterHit_NoFloor(health, damage) == health - damage

\* Math.max(0, prev.health - damage)
HealthAfterHit(health, damage) == Max(0, health - damage)

\* faulty variant: a third of the speed per frame
Advance_Slow(p) ==
    [p EXCEPT !.x = IF p.targetX >= p.x THEN p.x + p.speed \div 3
                                        ELSE p.x - p.speed \div 3,
              !.age = p.age + 1]

\* faulty variant: a frame that leaves the projectile where it is
Advance_Stay(p) == p

\* the particles of one projectile: a particle is its life in hundredths
\* (life: 1 is 100, the step 0.02 is 2); position, velocity, colour and size
\* are drawn only. for (let i = 0; i < 3; i++) newParticles.push({life: 1})
ParticlesPerFrame == 3
ParticleLife == 100
ParticleStep == 2

\* faulty variant: a particle kept at life 0
IsAlive_OrZero(life) == life >= 0

\* .filter(p => p.life > 0)
IsAlive(life) == life > 0

\* [...projectile.particles, ...newParticles]
\*     .map(p => ({...p, life: p.life - 0.02})).filter(p => p.life > 0)
EmitAndDecay(particles) ==
    LET all == particles \o [i \in 1..ParticlesPerFrame |-> ParticleLife]
        aged == [i \in 1..Len(all) |-> all[i] - ParticleStep]
    IN  SelectSeq(aged, IsAlive)

\* x + (dx / dist) * speed, and the particles emitted, aged and pruned
Advance(p) ==
    [p EXCEPT !.x = IF p.targetX >= p.x THEN p.x + p.speed ELSE p.x - p.speed,
              !.particles = EmitAndDecay(p.particles),
              !.age = p.age + 1]

\* the setScarecrow updaters one frame queues, applied in order
RECURSIVE ApplyHits(_, _, _)
ApplyHits(health, ps, combo) ==
    IF ps = << >> THEN health
    ELSE ApplyHits(HealthAfterHit(health, Damage(Head(ps), combo)),
                   Tail(ps), combo)

\* faulty variant: one reward per frame, however many hits
GainHits_Once(xp, n) ==
    IF n = 0 THEN xp
    ELSE handleExperienceGain(xp.experience, xp.level, HitExperience)

\* onExperienceGain(5), once per hit
RECURSIVE GainHits(_, _)
GainHits(xp, n) ==
    IF n = 0 THEN xp
    ELSE GainHits(handleExperienceGain(xp.experience, xp.level, HitExperience),
                  n - 1)

\* faulty variant: no projectile kept by a frame
MapAdvance_Clear(ps) == << >>

RECURSIVE MapAdvance(_)
MapAdvance(ps) ==
    IF ps = << >> THEN << >>
    ELSE << Advance(Head(ps)) >> \o MapAdvance(Tail(ps))

\* updateProjectiles: the setProjectiles updater of one animation frame
FrameUpdate ==
    /\ projectiles # << >>
    /\ LET hits == SelectSeq(projectiles, IsHit)
           live == SelectSeq(projectiles, LAMBDA p : ~IsHit(p))
           n == Len(hits)
           health == ApplyHits(scarecrow.health, hits, comboCountRef)
           xp == GainHits([experience |-> experience, level |-> level], n)
       IN  /\ projectiles' = MapAdvance(live)
           /\ hitCount' = hitCount + n
           /\ experience' = xp.experience
           /\ level' = xp.level
           /\ scarecrow' = IF n = 0 THEN scarecrow
                           ELSE [scarecrow EXCEPT !.health = health]
           /\ fresh' = IF n = 0 THEN fresh
                       ELSE [fresh EXCEPT !.scarecrow = TRUE, !.app = TRUE]
           /\ defeats' = IF n > 0 /\ scarecrow.health > 0 /\ health = 0
                         THEN defeats + 1 ELSE defeats
    /\ UNCHANGED << mana, handData, currentSpell, isCharging, comboCount,
                    chargeStartTime, lastGestureRef, comboCountRef, comboTimers,
                    respawnTimers, rendered, pendingEffects, now, ticks,
                    defeatRewards >>
    /\ UNCHANGED bystanders

(* ------------------------- camera and tracking ------------------------- *)
\* getUserMedia resolutions, initialize calls and camera toggles in one
\* behaviour
MaxStreams == 2
MaxLoops == 2
MaxToggles == 1

\* the camera devices enumerateDevices lists; "" is the initial selection
DeviceIds == {"cam1", "cam2"}

\* dependency values of App's camera effect and of its tracking effect; the
\* functions among them change with selectedDeviceId, stream and the model
CameraDeps == << cameraEnabled, camera.stream, camera.selectedDeviceId >>
TrackingDeps == << camera.stream, tracking.modelReady, cameraEnabled >>

\* streamRef.current.getTracks().forEach(track => track.stop()), s non-null
StopTracks(live, s) == live \ {s}

\* initializeCamera up to its await: the referenced stream's tracks are
\* stopped (the ref and the state keep it) and getUserMedia is requested
initializeCamera(c) ==
    [c EXCEPT !.live = IF c.streamRef # 0 THEN StopTracks(@, c.streamRef) ELSE @,
              !.requests = @ + 1]

\* stopCamera
stopCamera(c) ==
    IF c.streamRef # 0
    THEN [c EXCEPT !.live = StopTracks(@, c.streamRef),
                   !.streamRef = 0, !.stream = 0]
    ELSE c

\* cancelAnimationFrame(animationFrameRef.current): the ref holds the last
\* request made, by loop `ref'; it is still pending if that loop waits
Cancel(loops, ref) ==
    IF ref # 0 /\ loops[ref] = "frame"
    THEN [loops EXCEPT ![ref] = "cancelled"]
    ELSE loops

\* stop: the pending frame is cancelled and the video loses its source
stop(t) ==
    [t EXCEPT !.loops = Cancel(@, t.animationFrameRef),
              !.videoSrc = 0, !.stopped = TRUE]

\* video.onloadedmetadata = ... replaces the handler an earlier startVideo
\* set: a chain still waiting for it never starts
Orphan(loops) ==
    [l \in 1..Len(loops) |-> IF loops[l] = "starting" THEN "orphaned" ELSE loops[l]]

\* initialize up to the await in startVideo: video.srcObject = stream; a new
\* detection chain waits for the metadata to load
initialize(t, stream) ==
    [t EXCEPT !.loops = Append(Orphan(@), "starting"),
              !.videoSrc = stream, !.stopped = FALSE]

\* detectHands up to its first await, run by loop l: without a model or a
\* video that has data (readyState 0: no source, or a stream whose tracks
\* have been stopped) it asks for the next frame, otherwise it awaits the
\* model
detectHands(t, l, live) ==
    IF t.modelReady /\ t.videoSrc \in live
    THEN [t EXCEPT !.loops[l] = "estimating"]
    ELSE [t EXCEPT !.loops[l] = "frame", !.animationFrameRef = l]

\* the game is not followed here
GameIdle ==
    UNCHANGED << mana, experience, level, scarecrow, projectiles, currentSpell,
                 isCharging, comboCount, hitCount, chargeStartTime,
                 lastGestureRef, comboCountRef, comboTimers, respawnTimers,
                 rendered, pendingEffects, ticks, defeats, defeatRewards,
                 landmarks, start, rewardLog, labelLog, prevEvaluated,
                 castCount>>

\* the camera button or the c key: setCameraEnabled(!cameraEnabled)
ToggleCamera ==
    /\ camera.toggles < MaxToggles
    /\ cameraEnabled' = ~cameraEnabled
    /\ camera' = [camera EXCEPT !.toggles = @ + 1]
    /\ UNCHANGED << tracking, handData, fresh, now >>
    /\ GameIdle

\* loadDevices has enumerated the cameras: setSelectedDeviceId
LoadDevices ==
    /\ camera.selectedDeviceId = ""
    /\ \E d \in DeviceIds : camera' = [camera EXCEPT !.selectedDeviceId = d]
    /\ UNCHANGED << cameraEnabled, tracking, handData, fresh, now >>
    /\ GameIdle

\* changeDevice(d) from the selector, shown while the camera is enabled
ChangeDevice ==
    /\ cameraEnabled
    /\ camera.selectedDeviceId # ""
    /\ \E d \in DeviceIds \ {camera.selectedDeviceId} :
           LET c == [camera EXCEPT !.selectedDeviceId = d]
           IN  IF camera.streamRef # 0
               THEN /\ camera.acquired + camera.requests < MaxStreams
                    /\ camera' = initializeCamera(c)
               ELSE camera' = c
    /\ UNCHANGED << cameraEnabled, tracking, handData, fresh, now >>
    /\ GameIdle

\* const newStream = await getUserMedia(constraints) resolves:
\* streamRef.current = newStream; setStream(newStream)
GetUserMedia ==
    /\ camera.requests > 0
    /\ LET n == camera.acquired + 1
       IN  camera' = [camera EXCEPT !.requests = @ - 1, !.acquired = n,
                                    !.live = @ \cup {n},
                                    !.streamRef = n, !.stream = n]
    /\ UNCHANGED << cameraEnabled, tracking, handData, fresh, now >>
    /\ GameIdle

\* handpose.load resolves: setModel
ModelLoaded ==
    /\ ~tracking.modelReady
    /\ tracking' = [tracking EXCEPT !.modelReady = TRUE]
    /\ UNCHANGED << cameraEnabled, camera, handData, fresh, now >>
    /\ GameIdle

\* a render of App and its two effects, in the order React runs them: the
\* cleanup of the tracking effect (stop() if the render it belongs to had
\* the camera off), the camera effect, the tracking effect; all three read
\* the values of the render
AppEffects ==
    LET cameraRuns == camera.deps # CameraDeps
        trackingRuns == tracking.deps # TrackingDeps
        starts == cameraRuns /\ cameraEnabled /\ camera.stream = 0
        stops == cameraRuns /\ ~cameraEnabled /\ camera.stream # 0
        initializes == /\ trackingRuns
                       /\ camera.stream # 0
                       /\ tracking.modelReady
        cleaned == IF trackingRuns /\ ~tracking.deps[3]
                   THEN stop(tracking) ELSE tracking
        stopped == IF stops THEN stop(cleaned) ELSE cleaned
    IN  /\ cameraRuns \/ trackingRuns
        /\ starts => camera.acquired + camera.requests < MaxStreams
        /\ initializes => Len(tracking.loops) < MaxLoops
        /\ camera' = [(IF starts THEN initializeCamera(camera)
                       ELSE IF stops THEN stopCamera(camera)
                       ELSE camera) EXCEPT !.deps = CameraDeps]
        /\ tracking' = [(IF initializes THEN initialize(stopped, camera.stream)
                         ELSE stopped) EXCEPT !.deps = TrackingDeps]
        /\ UNCHANGED << cameraEnabled, handData, fresh, now >>
        /\ GameIdle

\* video.onloadedmetadata of a playing source: startVideo resolves and
\* initialize calls detectHands()
StartVideo ==
    /\ \E l \in 1..Len(tracking.loops) :
           /\ tracking.loops[l] = "starting"
           /\ tracking.videoSrc \in camera.live
           /\ tracking' = detectHands(tracking, l, camera.live)
    /\ UNCHANGED << cameraEnabled, camera, handData, fresh, now >>
    /\ GameIdle

\* the animation frame a loop asked for: detectHands runs
AnimationFrame ==
    /\ \E l \in 1..Len(tracking.loops) :
           /\ tracking.loops[l] = "frame"
           /\ detectHands(tracking, l, camera.live) # tracking
           /\ tracking' = detectHands(tracking, l, camera.live)
    /\ UNCHANGED << cameraEnabled, camera, handData, fresh, now >>
    /\ GameIdle

\* await model.estimateHands resolves in a loop: setHandData with the hand or
\* with null, then requestAnimationFrame(detectHands)
EstimateHands ==
    /\ now < MaxCycles
    /\ \E l \in 1..Len(tracking.loops) :
           /\ tracking.loops[l] = "estimating"
           /\ tracking' = [tracking EXCEPT !.loops[l] = "frame",
                                           !.animationFrameRef = l]
    /\ \E h \in {NoHand} \cup {Hand("fist", x) : x \in IndexXs} :
           /\ handData' = h
           /\ fresh' = [fresh EXCEPT !.handData =
                            h.present \/ rendered.handData.present]
    /\ now' = now + 1
    /\ UNCHANGED << cameraEnabled, camera >>
    /\ GameIdle

(* ------------------------------- camera -------------------------------- *)
\* setCameraEnabled(false): App re-renders and its camera effect calls
\* stopCamera() and stop(), which end the stream and the detection loop;
\* MagicSpellSystem stays mounted and nothing of its state is touched
StopCamera ==
    /\ cameraEnabled
    /\ cameraEnabled' = FALSE
    /\ fresh' = [fresh EXCEPT !.app = TRUE]
    /\ camera' = [stopCamera(camera) EXCEPT
                      !.deps = << FALSE, 0, camera.selectedDeviceId >>]
    /\ tracking' = [stop(tracking) EXCEPT
                        !.deps = << 0, tracking.modelReady, FALSE >>]
    /\ UNCHANGED << mana, experience, level, handData, scarecrow, projectiles,
                    currentSpell, isCharging, comboCount, hitCount,
                    chargeStartTime, lastGestureRef, comboCountRef, comboTimers,
                    respawnTimers, rendered, pendingEffects, now, ticks,
                    defeats, defeatRewards, landmarks, start, rewardLog,
                    labelLog, prevEvaluated, castCount >>

(* ---------------------------- specification ---------------------------- *)
Next ==
    \/ ManaRegen
    \/ HandSeen
    \/ HandLost
    \/ Render
    \/ RunEffects
    \/ ComboDecay
    \/ RespawnFire
    \/ FrameUpdate

Spec == Init /\ [][Next]_vars

\* timers fire, renders commit and passive effects run whenever they are due
LiveSpec ==
    /\ Spec
    /\ WF_vars(Render)
    /\ WF_vars(RunEffects)
    /\ WF_vars(RespawnFire)

\* the session with the camera toggle: the camera can be switched off
StopNext == Next \/ StopCamera

StopSpec == Init /\ [][StopNext]_vars

(***************************************************************************)
(* A session in mid-combo: the states after one fireball, and after a      *)
(* fireball and a water wave, have hit the fresh scarecrow (30 * 1.1 = 33, *)
(* then 20 * 1.2 = 24) while their decay timers are still pending, and the *)
(* hand has closed to a fist again.                                        *)
(***************************************************************************)
ComboSessions ==
    { [mana |-> 85, health |-> 467, hits |-> 1, experience |-> 5,
       level |-> 1, lastGesture |-> "fist", combo |-> 1],
      [mana |-> 75, health |-> 443, hits |-> 2, experience |-> 10,
       level |-> 1, lastGesture |-> "fist", combo |-> 2] }

ComboInit ==
    /\ landmarks = << >>
    /\ DevicesRunning
    /\ \E s \in ComboSessions :
           SessionState(s, Hand("fist", CHOOSE x \in IndexXs : TRUE),
                        << >>, s.combo)

\* the steps that cast, decay and fly; the regeneration tick, the loss of the
\* hand and the respawn touch neither the combo counter nor its timers
ComboNext ==
    \/ HandSeen
    \/ Render
    \/ RunEffects
    \/ ComboDecay
    \/ FrameUpdate

ComboSpec == ComboInit /\ [][ComboNext]_vars

(***************************************************************************)
(* The ledger alone: App's regeneration interval and handleExperienceGain, *)
(* applied from every mana in 0..100 and every experience a session can    *)
(* show at level 1 (the rewards are 5 and 50, so a multiple of 5), with    *)
(* the game idle: the hits so far were water waves landing after their     *)
(* combo decay, and nothing is cast.                                       *)
(***************************************************************************)
Rewards == {HitExperience, DefeatExperience}

LedgerSessions ==
    { [mana |-> m, health |-> MaxHealth - 20 * h, hits |-> h,
       experience |-> HitExperience * h, level |-> 1, lastGesture |-> "none"] :
      m \in 0..MaxMana, h \in 0..((LevelExperience \div HitExperience) - 1) }

LedgerInit ==
    /\ landmarks = << >>
    /\ DevicesRunning
    /\ \E s \in LedgerSessions : SessionState(s, NoHand, << >>, 0)

\* the interval callback of the mana-regeneration effect, with the game idle
LedgerTick ==
    /\ ticks < MaxLedgerTicks
    /\ ticks' = ticks + 1
    /\ mana' = Regen(mana)
    /\ UNCHANGED << experience, level, handData, scarecrow, projectiles,
                    currentSpell, isCharging, comboCount, hitCount,
                    chargeStartTime, lastGestureRef, comboCountRef, comboTimers,
                    respawnTimers, rendered, fresh, pendingEffects, now,
                    defeats, defeatRewards, bystanders >>

\* one call of handleExperienceGain(r)
LedgerReward ==
    /\ Len(rewardLog) < MaxRewards
    /\ \E r \in Rewards :
           LET g == handleExperienceGain(experience, level, r)
           IN  /\ experience' = g.experience
               /\ level' = g.level
               /\ rewardLog' = Append(rewardLog, r)
    /\ UNCHANGED << mana, handData, scarecrow, projectiles, currentSpell,
                    isCharging, comboCount, hitCount, chargeStartTime,
                    lastGestureRef, comboCountRef, comboTimers, respawnTimers,
                    rendered, fresh, pendingEffects, now, ticks, defeats,
                    defeatRewards, cameraEnabled, landmarks, start, labelLog,
                    prevEvaluated, castCount, camera, tracking >>

LedgerNext == LedgerTick \/ LedgerReward

LedgerSpec == LedgerInit /\ [][LedgerNext]_vars

\* the same with every pending callback and reward eventually delivered
LiveLedgerSpec == LedgerSpec /\ WF_vars(LedgerNext)

(***************************************************************************)
(* Projectiles in flight: the states right after a cast, with one shot     *)
(* (a fireball) or two (a fireball, then a water wave) spawned at any      *)
(* index-tip position of the viewport, their combo decays pending, in a    *)
(* new session and in one whose scarecrow is down to 10 health.            *)
(***************************************************************************)
FlightXs == 0..InnerWidth

\* the sessions as they stood before the casts
FlightSessions ==
    { [mana |-> 100, health |-> MaxHealth, hits |-> 0, experience |-> 0,
       level |-> 1, lastGesture |-> "palm"],
      [mana |-> 40,  health |-> 10, hits |-> 24, experience |-> 20,
       level |-> 2, lastGesture |-> "palm"] }

\* the projectile of the cast made in detection cycle t with the tip at x
Shot(t, spell, x, combo) ==
    NewProjectile(spell, Hand("palm", x), FreshScarecrow, t, combo)

\* session s after casting the spells of `shots'
AfterCasts(s, shots) ==
    LET Cost(i) == SpellById(shots[i].spell).manaCost
        spent == IF Len(shots) = 1 THEN Cost(1) ELSE Cost(1) + Cost(2)
        last == shots[Len(shots)]
    IN  SessionState([s EXCEPT !.mana = s.mana - spent],
                     Hand("palm", last.spawnX), shots, Len(shots))

FlightInit ==
    /\ landmarks = << >>
    /\ DevicesRunning
    /\ \E s \in FlightSessions, x1 \in FlightXs :
           \/ AfterCasts(s, << Shot(3, "fireball", x1, 1) >>)
           \/ \E x2 \in FlightXs :
                  AfterCasts(s, << Shot(3, "fireball", x1, 1),
                                   Shot(6, "waterwave", x2, 2) >>)

\* the animation frames and the combo timers
FlightNext == FrameUpdate \/ ComboDecay

FlightSpec == FlightInit /\ [][FlightNext]_vars

\* the same with requestAnimationFrame calling updateProjectiles again and
\* again
LiveFlightSpec == FlightSpec /\ WF_vars(FrameUpdate)

(***************************************************************************)
(* A defeat with a second projectile behind it: the played session has     *)
(* cast a fireball next to the scarecrow, which stands at 10 health, and a *)
(* water wave from further away; the hand is held still afterwards.        *)
(***************************************************************************)
DefeatInit ==
    /\ landmarks = << >>
    /\ DevicesRunning
    /\ \E s \in {t \in FlightSessions : t.health < 30},
          x1 \in {CanonicalX - ProjectileSpeed, CanonicalX},
          x2 \in {0, ProjectileSpeed} :
           AfterCasts(s, << Shot(3, "fireball", x1, 1),
                            Shot(6, "waterwave", x2, 2) >>)

\* the frames, the timers, the regeneration tick and the renders and
\* effects they cause
DefeatNext ==
    \/ ManaRegen
    \/ Render
    \/ RunEffects
    \/ ComboDecay
    \/ RespawnFire
    \/ FrameUpdate

DefeatSpec == DefeatInit /\ [][DefeatNext]_vars

(***************************************************************************)
(* Long flights: one fireball cast in a desktop viewport, far enough from  *)
(* the scarecrow for its first particles to live out their life.           *)
(***************************************************************************)
\* window.innerWidth of that viewport, and the tip positions of the cast
WideWidth == 1200
WideXs == {0, 300, 600}

ParticleInit ==
    /\ landmarks = << >>
    /\ DevicesRunning
    /\ \E x \in WideXs :
           LET target == (WideWidth * 3) \div 4
               hand == Hand("palm", x)
           IN  SessionStateAt(
                   [mana |-> 85, health |-> MaxHealth, hits |-> 0,
                    experience |-> 0, level |-> 1, lastGesture |-> "palm"],
                   hand,
                   << NewProjectile("fireball", hand,
                                    [FreshScarecrow EXCEPT !.x = target],
                                    3, 1) >>,
                   1, target)

ParticleSpec == ParticleInit /\ [][FlightNext]_vars

(***************************************************************************)
(* The devices alone: a new session in which nothing is loaded, requested  *)
(* or running yet and the user has just enabled the camera.                *)
(***************************************************************************)
CameraInit ==
    /\ landmarks = << >>
    /\ \E s \in {t \in Sessions : t.hits = 0} :
           SessionState(s, NoHand, << >>, 0)
    /\ camera = [selectedDeviceId |-> "", stream |-> 0, streamRef |-> 0,
                 live |-> {}, acquired |-> 0, requests |-> 0, toggles |-> 0,
                 deps |-> << FALSE, 0, "" >>]
    /\ tracking = [modelReady |-> FALSE, videoSrc |-> 0, loops |-> << >>,
                   animationFrameRef |-> 0, stopped |-> FALSE,
                   deps |-> << 0, FALSE, FALSE >>]

CameraNext ==
    \/ ToggleCamera
    \/ LoadDevices
    \/ ChangeDevice
    \/ GetUserMedia
    \/ ModelLoaded
    \/ AppEffects
    \/ StartVideo
    \/ AnimationFrame
    \/ EstimateHands

CameraSpec == CameraInit /\ [][CameraNext]_vars

(***************************************************************************)
(* The classifier alone:
 detectGesture applied to each landmark set, its   *)
(* label published as the hand's gesture.                                  *)
(***************************************************************************)
ClassifierInit ==
    /\ landmarks \in LandmarkSets
    /\ DevicesRunning
    /\ \E s \in {t \in Sessions : t.hits = 0} :
           SessionState(s, NoHand, << >>, 0)

\* the detectGesture calls one run makes
MaxInvocations == 3

\* the landmark sets a later frame may bring besides the first one again: the
\* empty set and the hands with all five tips at one height
ProbeSets ==
    { l \in LandmarkSets :
          \/ Len(l) = 0
          \/ \A i \in TipIndices, j \in TipIndices : Y(l, i) = Y(l, j) }

\* const gesture = detectGesture(landmarks), published by setHandData
Classify ==
    /\ cameraEnabled
    /\ Len(labelLog) < MaxInvocations
    /\ LET gesture == detectGesture(landmarks)
       IN  /\ \E x \in IndexXs : handData' = Hand(gesture, x)
           /\ labelLog' = Append(labelLog, [landmarks |-> landmarks,
                                            gesture |-> gesture])
    /\ fresh' = [fresh EXCEPT !.handData = TRUE]
    /\ UNCHANGED << mana, experience, level, scarecrow, projectiles,
                    currentSpell, isCharging, comboCount, hitCount,
                    chargeStartTime, lastGestureRef, comboCountRef, comboTimers,
                    respawnTimers, rendered, pendingEffects, now, ticks,
                    defeats, defeatRewards, cameraEnabled, landmarks, start,
                    rewardLog, prevEvaluated, castCount, camera, tracking >>

\* const hands = await detector.estimateHands(video): the next frame's
\* prediction, once the current one has been classified
Estimate ==
    /\ cameraEnabled
    /\ labelLog # << >>
    /\ Len(labelLog) < MaxInvocations
    /\ labelLog[Len(labelLog)].landmarks = landmarks
    /\ landmarks' \in ({labelLog[1].landmarks} \cup ProbeSets) \ {landmarks}
    /\ UNCHANGED << mana, experience, level, handData, scarecrow, projectiles,
                    currentSpell, isCharging, comboCount, hitCount,
                    chargeStartTime, lastGestureRef, comboCountRef, comboTimers,
                    respawnTimers, rendered, fresh, pendingEffects, now, ticks,
                    defeats, defeatRewards, cameraEnabled, start, rewardLog,
                    labelLog, prevEvaluated, castCount, camera, tracking >>

ClassifierNext == Classify \/ Estimate

ClassifierSpec == ClassifierInit /\ [][ClassifierNext]_vars

TypeOK ==
    /\ mana \in 0..MaxMana
    /\ experience \in Nat
    /\ level \in Nat
    /\ isCharging \in BOOLEAN
    /\ currentSpell \in SpellIds \cup {NoSpell}
    /\ lastGestureRef \in Gestures
    /\ comboCountRef \in Nat
    /\ comboTimers \in Nat
    /\ respawnTimers \in Nat
    /\ cameraEnabled \in BOOLEAN

(* ------------------------ properties: helpers -------------------------- *)
\* this step runs the gesture effect
GestureRuns == pendingEffects.gesture /\ ~pendingEffects'.gesture

\* the catalog's gesture-to-spell table, written out
SpellGestures == {"point", "peace", "rock"}
SpellOf(g) ==
    CASE g = "point" -> "fireball"
      [] g = "peace" -> "waterwave"
      [] g = "rock"  -> "lightning"
CostOf(id) ==
    CASE id = "fireball"  -> 15
      [] id = "waterwave" -> 10
      [] id = "lightning" -> 20
DamageOf(id) ==
    CASE id = "fireball"  -> 30
      [] id = "waterwave" -> 20
      [] id = "lightning" -> 40

\* the gesture and the mana the state machine is evaluated with
SeenGesture == rendered.handData.gesture
SeenHand == rendered.handData.present

\* this step casts: it spawns a projectile, raises the combo or spends mana
CastHappens ==
    \/ Len(projectiles') > Len(projectiles)
    \/ comboCountRef' > comboCountRef
    \/ mana' < mana

(* ------------------------------- claims -------------------------------- *)
\* C1: mana is an integer in 0..100 in every reachable state, both as stored
\* and as read by the last render, under any interleaving of regeneration
\* ticks, charge starts and casts.
C1_ManaBounds ==
    /\ mana \in 0..MaxMana
    /\ rendered.mana \in 0..MaxMana

\* C1 witness: a regeneration tick and a cast have both happened and the cast
\* left less than 10 mana.
C1_Witness == ticks > 0 /\ projectiles # << >> /\ mana < 10

\* C2: evaluated while Idle with previous gesture fist, a spell gesture g whose
\* spell costs no more than the mana read starts Charging with exactly that
\* spell (point -> fireball, peace -> waterwave, rock -> lightning) and leaves
\* mana unchanged.
C2_ChargeStart ==
    [][ ( /\ GestureRuns
          /\ SeenHand
          /\ ~rendered.isCharging
          /\ lastGestureRef = "fist"
          /\ SeenGesture \in SpellGestures
          /\ CostOf(SpellOf(SeenGesture)) <= rendered.mana )
        => ( /\ isCharging'
             /\ currentSpell' = SpellOf(SeenGesture)
             /\ mana' = mana ) ]_vars

\* C2 witness: a lightning charge is open, the rock gesture was the last one
\* evaluated and nothing has been cast.
C2_Witness ==
    /\ isCharging
    /\ currentSpell = "lightning"
    /\ lastGestureRef = "rock"
    /\ comboTimers = 0

C4_RejectedCharge ==
    [][ /\ ( /\ GestureRuns
             /\ SeenHand
             /\ lastGestureRef = "fist"
             /\ SeenGesture \in SpellGestures
             /\ CostOf(SpellOf(SeenGesture)) > rendered.mana )
           => UNCHANGED << mana, projectiles, comboCount, comboCountRef,
                           comboTimers, isCharging, currentSpell >>
        /\ (GestureRuns /\ ~rendered.isCharging) => ~CastHappens ]_vars

\* C4 witness: Idle, previous gesture fist, and the rock gesture is about to
\* be evaluated with less than the 20 mana lightning costs.
C4_Witness ==
    /\ pendingEffects.gesture
    /\ ~rendered.isCharging
    /\ lastGestureRef = "fist"
    /\ SeenHand
    /\ SeenGesture = "rock"
    /\ rendered.mana < 20

C6_ChargeUnchanged ==
    [][ ( /\ GestureRuns
          /\ SeenHand
          /\ rendered.isCharging
          /\ SeenGesture # "palm" )
        => UNCHANGED << currentSpell, chargeStartTime >> ]_vars

\* C6 (amended): while Charging, an evaluation of a gesture other than palm
\* leaves the session unchanged, except a spell gesture that follows a fist
\* and whose spell costs no more than the mana read: that one replaces the
\* active spell by the gesture's spell and restarts the charge.
C6_ChargeReplaced ==
    [][ ( /\ GestureRuns
          /\ SeenHand
          /\ rendered.isCharging
          /\ SeenGesture # "palm" )
        => IF /\ lastGestureRef = "fist"
              /\ SeenGesture \in SpellGestures
              /\ CostOf(SpellOf(SeenGesture)) <= rendered.mana
           THEN /\ currentSpell' = SpellOf(SeenGesture)
                /\ chargeStartTime' = now
                /\ isCharging'
           ELSE UNCHANGED << currentSpell, chargeStartTime, isCharging >> ]_vars

\* C6 witness: a fireball charge is open, the previous gesture is fist, and
\* the affordable peace gesture is about to be evaluated.
C6_Witness ==
    /\ pendingEffects.gesture
    /\ rendered.isCharging
    /\ rendered.currentSpell = "fireball"
    /\ lastGestureRef = "fist"
    /\ SeenHand
    /\ SeenGesture = "peace"
    /\ rendered.mana >= 10

\* C7: the +50 defeat reward is granted at most once per transition of the
\* target's health to 0.
C7_OneRewardPerDefeat == defeatRewards <= defeats

\* C8: target health stays within 0..maxHealth, as stored and as rendered,
\* and a single hit whose damage is at least the remaining health leaves
\* exactly 0.
C8_HealthBounds ==
    /\ [](scarecrow.health \in 0..MaxHealth)
    /\ [](rendered.scarecrow.health \in 0..MaxHealth)
    /\ [](scarecrow.maxHealth = MaxHealth)
    /\ [][ (hitCount' = hitCount + 1)
           => \E i \in 1..Len(projectiles) :
                  /\ Abs(projectiles[i].targetX - projectiles[i].x) < 30
                  /\ LET d == (DamageOf(projectiles[i].spell)
                                  * (10 + comboCountRef)) \div 10
                     IN  d >= scarecrow.health => scarecrow'.health = 0 ]_vars

\* C8 witness: a session that stood at 10 health has taken one hit (every
\* hit deals at least 20) and stands at exactly 0.
C8_Witness == scarecrow.health = 0 /\ defeats = 1 /\ hitCount = 25

\* C9: whenever target health is 0 the target is eventually back at max
\* health at the canonical position, and until then health stays 0: the only
\* step that changes a health of 0 is a respawn timer firing.
C9_Respawn ==
    /\ (scarecrow.health = 0) ~> (scarecrow = FreshScarecrow)
    /\ [][ (scarecrow.health = 0 /\ scarecrow' # scarecrow)
           => ( /\ scarecrow'.health = MaxHealth
                /\ scarecrow'.x = (InnerWidth * 3) \div 4
                /\ respawnTimers' = respawnTimers - 1 ) ]_vars

\* C9 witness: the target was defeated and a respawn timer has put it back
\* at max health.
C9_Witness ==
    /\ defeats >= 1
    /\ defeatRewards >= 1
    /\ scarecrow = FreshScarecrow

\* C10: a single hit lowers health by spell.damage * (1 + 0.1 * c), floored at
\* 0, where c is the combo counter in the frame of the collision.
C10_DamageAtCollision ==
    [][ (hitCount' = hitCount + 1)
        => \E i \in 1..Len(projectiles) :
               /\ Abs(projectiles[i].targetX - projectiles[i].x) < 30
               /\ LET d == (DamageOf(projectiles[i].spell)
                               * (10 + comboCountRef)) \div 10
                  IN  scarecrow'.health = Max(0, scarecrow.health - d) ]_vars

\* C10 witness: a fireball cast at combo 1 has hit the fresh target after its
\* own decay fired (combo 0) and dealt 30, not 33.
C10_Witness ==
    /\ hitCount = 1
    /\ scarecrow.health = MaxHealth - 30
    /\ comboTimers = 0

\* C11: the combo counter, as ref and as state, equals the number of casts
\* whose decay timer has not fired and is never negative; a cast adds one to
\* the counter and one timer of its own, leaving the earlier timers pending;
\* and the counter only goes down, by one, when a pending decay fires.
C11_ComboIsPendingDecays ==
    /\ [](comboCountRef = comboTimers)
    /\ [](comboCount = comboTimers)
    /\ [](comboCountRef >= 0)
    /\ [][ (Len(projectiles') > Len(projectiles))
           => ( /\ comboCountRef' = comboCountRef + 1
                /\ comboTimers' = comboTimers + 1 ) ]_vars
    /\ [][ (comboCountRef' < comboCountRef)
           => ( /\ comboCountRef' = comboCountRef - 1
                /\ comboTimers' = comboTimers - 1
                /\ Len(projectiles') <= Len(projectiles) ) ]_vars

\* C11 witness: a session that had two decays pending has cast once more
\* (three pending) and one of the three has fired while the new projectile
\* is still in flight.
C11_Witness ==
    /\ start.mana = 75
    /\ Len(projectiles) = 1
    /\ comboCountRef = 2
    /\ comboTimers = 2

\* C12: with no cast, after n regeneration ticks from mana m the mana is
\* min(100, m + 2n).
C12_RegenAfterTicks ==
    mana = (IF start.mana + 2 * ticks < 100 THEN start.mana + 2 * ticks ELSE 100)

\* C12 witness: started at 50, five ticks later mana is 60.
C12_Witness == start.mana = 50 /\ ticks = 5 /\ mana = 60

\* C13: a reward r applied to experience e gives level + 1 and e + r - 100 if
\* e + r >= 100, and the same level and e + r otherwise: at most one
\* level-up per reward.
C13_ExperienceWrap ==
    [][ (Len(rewardLog') = Len(rewardLog) + 1)
        => LET r == rewardLog'[Len(rewardLog')]
           IN  IF experience + r >= 100
               THEN level' = level + 1 /\ experience' = experience + r - 100
               ELSE level' = level /\ experience' = experience + r ]_vars

\* C13 witness: from experience 90 at level 1, one reward of 50 has given
\* experience 40 at level 2.
C13_Witness ==
    /\ start.experience = 90
    /\ start.level = 1
    /\ rewardLog = << 50 >>
    /\ experience = 40
    /\ level = 2

(* helpers of the flight properties, written from the claims' numbers *)
\* the ids of the projectiles of a list
IdsOf(ps) == {ps[i].id : i \in 1..Len(ps)}

\* the distance of projectile q to its target, and to it from its spawn point
GapOf(q) == IF q.targetX >= q.x THEN q.targetX - q.x ELSE q.x - q.targetX
SpawnGapOf(q) ==
    IF q.targetX >= q.spawnX THEN q.targetX - q.spawnX ELSE q.spawnX - q.targetX

\* this step is a frame update: it removes or advances the live projectiles
FrameStep == projectiles # << >> /\ projectiles' # projectiles
                /\ Len(projectiles') <= Len(projectiles)

\* C14: in every frame, each projectile that stays live keeps its target,
\* comes strictly nearer to it and does not pass it; the target of every live
\* projectile is the point fixed at spawn and its distance is never negative.
C14_DistanceDecreases ==
    /\ [](\A i \in 1..Len(projectiles) :
             /\ projectiles[i].targetX = (InnerWidth * 3) \div 4
             /\ GapOf(projectiles[i]) >= 0)
    /\ [][ FrameStep
           => \A j \in 1..Len(projectiles') :
                  \E i \in 1..Len(projectiles) :
                      LET p == projectiles[i]
                          q == projectiles'[j]
                      IN  /\ q.id = p.id
                          /\ q.targetX = p.targetX
                          /\ GapOf(q) < GapOf(p)
                          /\ (p.targetX - p.x) * (q.targetX - q.x) >= 0 ]_vars

\* C14 witness: a projectile spawned 60 from its target has been advanced
\* three times and is 15 from it, on the side it started from.
C14_Witness ==
    \E i \in 1..Len(projectiles) :
        /\ projectiles[i].spawnX = 0
        /\ projectiles[i].age = 3
        /\ projectiles[i].x = 45

\* C15: a projectile spawned at distance D is resolved as a hit in frame
\* ceil(D / 15), give or take one frame.
C15_FramesToHit ==
    [][ FrameStep
        => \A i \in 1..Len(projectiles) :
               (projectiles[i].id \notin IdsOf(projectiles'))
               => LET frames == projectiles[i].age + 1
                      ceil == (SpawnGapOf(projectiles[i]) + 14) \div 15
                  IN  frames \in {ceil - 1, ceil, ceil + 1} ]_vars

\* C15 witness: the single shot of a new session, spawned at distance 60,
\* has been resolved as a hit.
C15_Witness ==
    /\ projectiles = << >>
    /\ handData.x = 0
    /\ hitCount = 1

\* the projectiles of a list that are within the hit radius, and the damage
\* they deal together at combo count c
InRange(ps) == {i \in 1..Len(ps) : GapOf(ps[i]) < 30}
RECURSIVE DamageSum(_, _, _)
DamageSum(ps, S, c) ==
    IF S = {} THEN 0
    ELSE LET i == CHOOSE k \in S : TRUE
         IN  (DamageOf(ps[i].spell) * (10 + c)) \div 10
                 + DamageSum(ps, S \ {i}, c)

\* C16: a frame resolves exactly the projectiles nearer than 30 to their
\* target, each once: per such projectile the hit counter rises by one and 5
\* experience is granted, health drops by their damage (floored at 0), and
\* they leave the live list, whose ids are distinct and never come back; and
\* no other step counts a hit.
C16_HitExactlyOnce ==
    /\ [](Cardinality(IdsOf(projectiles)) = Len(projectiles))
    /\ [][ FrameStep
           => LET H == InRange(projectiles)
                  n == Cardinality(H)
              IN  /\ hitCount' = hitCount + n
                  /\ 100 * level' + experience'
                         = 100 * level + experience + 5 * n
                  /\ scarecrow'.health =
                         Max(0, scarecrow.health
                                  - DamageSum(projectiles, H, comboCountRef))
                  /\ IdsOf(projectiles')
                         = IdsOf(projectiles) \ {projectiles[i].id : i \in H}
                  /\ Len(projectiles') = Len(projectiles) - n ]_vars
    /\ [][ (hitCount' # hitCount) => FrameStep ]_vars
    /\ [][ IdsOf(projectiles') \subseteq IdsOf(projectiles) ]_vars

\* C16 witness: both shots of the session that stood at 10 health have been
\* resolved: two hits counted, 10 experience granted, health floored at 0.
C16_Witness ==
    /\ start.experience = 20
    /\ projectiles = << >>
    /\ hitCount = 26
    /\ experience = 30
    /\ scarecrow.health = 0

\* C17 (as claimed): a projectile whose move in a frame brings it within the
\* hit radius is resolved as a hit in that same frame.
C17_MoveBeforeCollision ==
    [][ FrameStep
        => \A i \in 1..Len(projectiles) :
               (GapOf(projectiles[i]) >= 30 /\ GapOf(projectiles[i]) - 15 < 30)
               => projectiles[i].id \notin IdsOf(projectiles') ]_vars

\* C17 (amended): within one frame the collision is tested first, on the
\* position the previous frame left, and only the projectiles that did not
\* hit are moved: a projectile at 30 or more stays live and is moved by 15,
\* also when the move brings it within the hit radius, and it is resolved
\* as a hit in the next frame.
C17_CollisionBeforeMove ==
    [][ FrameStep
        => \A i \in 1..Len(projectiles) :
               LET p == projectiles[i]
               IN  IF GapOf(p) < 30
                   THEN p.id \notin IdsOf(projectiles')
                   ELSE \E j \in 1..Len(projectiles') :
                            /\ projectiles'[j].id = p.id
                            /\ GapOf(projectiles'[j]) = GapOf(p) - 15
                            /\ projectiles'[j].age = p.age + 1 ]_vars

\* C17 witness: a projectile spawned 40 from its target has been moved to 25
\* from it, within the hit radius, and is still live.
C17_Witness ==
    \E i \in 1..Len(projectiles) :
        /\ projectiles[i].spawnX = 20
        /\ projectiles[i].age = 1
        /\ GapOf(projectiles[i]) = 25

\* C18: once the camera is disabled no damage is applied, no hit is counted,
\* no experience is granted and the combo counter does not change.
C18_NothingAfterStop ==
    [][ (~cameraEnabled)
        => UNCHANGED << scarecrow, hitCount, experience, level,
                        comboCountRef, comboCount >> ]_vars

(* helpers of the classifier properties: the digits whose tip is above its *)
(* proximal joint, from the landmark indices of the hand model              *)
Digits == {"thumb", "index", "middle", "ring", "pinky"}
TipOf(d) ==
    CASE d = "thumb" -> 4 [] d = "index" -> 8 [] d = "middle" -> 12
      [] d = "ring" -> 16 [] d = "pinky" -> 20
JointOf(d) ==
    CASE d = "thumb" -> 2 [] d = "index" -> 6 [] d = "middle" -> 10
      [] d = "ring" -> 14 [] d = "pinky" -> 18
ExtendedDigits == {d \in Digits : landmarks[TipOf(d) + 1] < landmarks[JointOf(d) + 1]}
Classified ==
    /\ handData.present
    /\ Len(landmarks) = 21
    /\ labelLog # << >>
    /\ labelLog[Len(labelLog)].landmarks = landmarks

\* C19 (as claimed): for each of the 32 sets of extended digits the label is
\* the first match of: no finger but perhaps the thumb -> fist; all five ->
\* palm; the index alone of the five -> point; index and middle, not ring
\* and pinky -> peace; thumb, index and pinky, not middle and ring -> rock;
\* otherwise unknown.
C19_RuleTable ==
    Classified
    => LET E == ExtendedDigits
           F == E \ {"thumb"}
       IN  handData.gesture =
               (IF F = {} THEN "fist"
                ELSE IF E = Digits THEN "palm"
                ELSE IF E = {"index"} THEN "point"
                ELSE IF F = {"index", "middle"} THEN "peace"
                ELSE IF E = {"thumb", "index", "pinky"} THEN "rock"
                ELSE "unknown")

\* C19 (amended): the same table with point for the index alone of the four
\* fingers, the thumb extended or not; all five extended yield palm, and
\* every set of extended digits has exactly one of the six labels.
C19_RuleTableThumbFree ==
    Classified
    => LET E == ExtendedDigits
           F == E \ {"thumb"}
       IN  /\ handData.gesture =
                  (IF F = {} THEN "fist"
                   ELSE IF E = Digits THEN "palm"
                   ELSE IF F = {"index"} THEN "point"
                   ELSE IF F = {"index", "middle"} THEN "peace"
                   ELSE IF E = {"thumb", "index", "pinky"} THEN "rock"
                   ELSE "unknown")
           /\ handData.gesture
                  \in {"fist", "palm", "point", "peace", "rock", "unknown"}
           /\ (E = Digits) => handData.gesture = "palm"

\* C19 witness: a hand with thumb and index extended and the other three not
\* has been classified, as point.
C19_Witness ==
    /\ Classified
    /\ ExtendedDigits = {"thumb", "index"}
    /\ handData.gesture = "point"

\* C20: a landmark set whose index, middle, ring and pinky tips are each at
\* or below their proximal joint (y >= the joint's y) is classified as fist,
\* wherever the thumb is.
C20_FistWhenFingersDown ==
    ( /\ Classified
      /\ \A d \in Digits \ {"thumb"} :
             landmarks[TipOf(d) + 1] >= landmarks[JointOf(d) + 1] )
    => handData.gesture = "fist"

\* C20 witness: classified as fist with the index tip level with its joint,
\* the other three fingers below theirs and the thumb extended.
C20_Witness ==
    /\ Classified
    /\ handData.gesture = "fist"
    /\ landmarks[9] = landmarks[7]
    /\ landmarks[13] > landmarks[11]
    /\ landmarks[17] > landmarks[15]
    /\ landmarks[21] > landmarks[19]
    /\ landmarks[5] < landmarks[3]

\* C21 (as claimed): a hand is classified as point exactly when the index is
\* the only extended digit of the five; with thumb and index extended it is
\* not point.
C21_PointIndexOnlyOfFive ==
    Classified => (handData.gesture = "point" <=> ExtendedDigits = {"index"})

\* C21 (amended): a hand is classified as point exactly when the index is
\* extended and middle, ring and pinky are not, unless all five digits are
\* extended; the thumb is not examined, so thumb and index extended (the
\* other three not) is point.
C21_PointIndexOnlyOfFour ==
    Classified
    => /\ handData.gesture = "point"
          <=> ExtendedDigits \ {"thumb"} = {"index"}
       /\ ExtendedDigits = {"thumb", "index"} => handData.gesture = "point"

\* C21 witness: classified as point with the thumb tip and the index tip
\* above their joints, the middle tip level with its joint and the ring and
\* pinky tips below theirs.
C21_Witness ==
    /\ Classified
    /\ handData.gesture = "point"
    /\ landmarks[5] < landmarks[3]
    /\ landmarks[9] < landmarks[7]
    /\ landmarks[13] = landmarks[11]
    /\ landmarks[17] > landmarks[15]
    /\ landmarks[21] > landmarks[19]

MachineState ==
    << mana, projectiles, comboCount, comboCountRef, comboTimers,
       isCharging, currentSpell, chargeStartTime >>

\* C23: a gesture that matches no spell never starts a charge: evaluated
\* while Idle, whatever the previous gesture (fist included), unknown, palm,
\* none or no hand leaves the machine Idle and mana, projectiles and combo as
\* they are; unknown evaluated while Charging neither casts nor cancels.
C23_NoSpellNoCharge ==
    [][ /\ ( /\ GestureRuns
             /\ ~rendered.isCharging
             /\ ~SeenHand \/ SeenGesture \in {"unknown", "palm", "none"} )
           => ( /\ UNCHANGED MachineState
                /\ ~isCharging' )
        /\ ( /\ GestureRuns
             /\ rendered.isCharging
             /\ SeenHand
             /\ SeenGesture = "unknown" )
           => ( /\ UNCHANGED MachineState
                /\ isCharging' ) ]_vars

\* C23 witness: Idle with no active spell, the previous gesture fist, and an
\* unknown gesture is about to be evaluated with full mana.
C23_Witness ==
    /\ pendingEffects.gesture
    /\ ~rendered.isCharging
    /\ rendered.currentSpell = NoSpell
    /\ lastGestureRef = "fist"
    /\ SeenHand
    /\ SeenGesture = "unknown"
    /\ rendered.mana = MaxMana

\* C24: a run of the cast state machine on hand data an earlier run has
\* already seen (re-run because mana, the charge flag, the active spell or
\* the scarecrow changed) makes no transition: charge flag, active spell,
\* charge start, previous gesture, mana, projectiles and combo stay as they
\* are.
C24_StaleRunChangesNothing ==
    [][ (GestureRuns /\ pendingEffects.stale)
        => UNCHANGED << MachineState, lastGestureRef >> ]_vars

\* C24 witness: the rock gesture after a fist was turned down with 18 mana;
\* a regeneration tick has made it 20, and the machine is about to be run
\* again on the same hand data with lightning now affordable.
C24_Witness ==
    /\ pendingEffects.stale
    /\ SeenHand
    /\ SeenGesture = "rock"
    /\ lastGestureRef = "rock"
    /\ ~rendered.isCharging
    /\ start.mana = 18
    /\ rendered.mana = 20

\* C25 (as claimed): a run of the machine that follows a run without a hand
\* does not start a charge, the previous gesture counting as none.
C25_NoChargeAfterAbsence ==
    [][ ( /\ GestureRuns
          /\ SeenHand
          /\ prevEvaluated = "none"
          /\ ~rendered.isCharging )
        => ~isCharging' ]_vars

\* C26: a palm evaluated while Charging casts the active spell however few
\* detection cycles have passed since the charge start (its mana permitting),
\* and a hit lowers health by the spell's damage times the combo multiplier,
\* floored at 0: an amount in which the time charged does not appear.
C26_ReleaseAtAnyCharge ==
    [][ /\ \A elapsed \in 0..now :
               ( /\ GestureRuns
                 /\ SeenHand
                 /\ SeenGesture = "palm"
                 /\ rendered.isCharging
                 /\ rendered.currentSpell # NoSpell
                 /\ rendered.mana >= CostOf(rendered.currentSpell)
                 /\ now - chargeStartTime = elapsed )
               => ( /\ Len(projectiles') = Len(projectiles) + 1
                    /\ projectiles'[Len(projectiles')].spell
                           = rendered.currentSpell
                    /\ ~isCharging' )
        /\ \A i \in 1..Len(projectiles) :
               ( /\ FrameStep
                 /\ Len(projectiles) = 1
                 /\ hitCount' = hitCount + 1 )
               => scarecrow'.health =
                      Max(0, scarecrow.health
                             - (DamageOf(projectiles[i].spell)
                                 * (10 + comboCountRef)) \div 10) ]_vars

\* C26 witness: a fireball (charge time 1000 ms) released by the palm of the
\* detection cycle right after the one that started its charge is in flight.
C26_Witness ==
    /\ Len(projectiles) = 1
    /\ projectiles[1].spell = "fireball"
    /\ projectiles[1].id = chargeStartTime + 1
    /\ ~isCharging
    /\ currentSpell = NoSpell

\* C27 (as claimed): after one regeneration tick and one cast of spell s,
\* both from mana m, mana is min(100, m + 2) - s.manaCost or
\* min(100, m - s.manaCost + 2).
C27_NoLostUpdate ==
    ( /\ ticks = 1
      /\ Len(projectiles) = 1
      /\ projectiles[1].castCombo = 1 )
    => LET cost == CostOf(projectiles[1].spell)
       IN  mana \in { Min(MaxMana, start.mana + RegenAmount) - cost,
                      Min(MaxMana, start.mana - cost + RegenAmount) }

\* C28: every frame that advances a projectile lowers the life of each of
\* its particles, the three emitted in that frame included, by the one step
\* 0.02 and drops those that reach 0 or less (the oldest, at the head of the
\* list); so every stored particle has 0 < life < 1 and a projectile carries
\* at most 3 * 50 particles.
C28_ParticleDecay ==
    /\ [](\A i \in 1..Len(projectiles) :
              LET ps == projectiles[i].particles
              IN  /\ Len(ps) <= ParticlesPerFrame * (ParticleLife \div ParticleStep)
                  /\ \A j \in 1..Len(ps) : 0 < ps[j] /\ ps[j] < ParticleLife)
    /\ [][ FrameStep
           => \A i \in 1..Len(projectiles), k \in 1..Len(projectiles') :
                  (projectiles'[k].id = projectiles[i].id)
                  => LET old == projectiles[i].particles
                         new == projectiles'[k].particles
                         gone == Len(old) + ParticlesPerFrame - Len(new)
                     IN  /\ gone \in 0..Len(old)
                         /\ \A j \in 1..gone : old[j] - ParticleStep <= 0
                         /\ \A j \in 1..Len(new) :
                                new[j] = (IF j + gone <= Len(old)
                                          THEN old[j + gone]
                                          ELSE ParticleLife) - ParticleStep ]_vars

\* C28 witness: a fireball advanced 51 times carries 147 particles, the
\* oldest with life 0.02 and the newest with 0.98: those of its first two
\* frames have been removed.
C28_Witness ==
    /\ Len(projectiles) = 1
    /\ projectiles[1].age = 51
    /\ Len(projectiles[1].particles) = 147
    /\ projectiles[1].particles[1] = 2
    /\ projectiles[1].particles[147] = 98

\* C29 (as claimed): whenever a reward has raised the level, the level-up
\* notification is shown then or later: its condition experience >= 100
\* holds in that state or a following one.
C29_LevelUpNotified ==
    (level > start.level) ~> LevelUpShown(experience)

\* C30: experience is within 0..99 and level is at least 1 in every state,
\* and no step lowers the level, whatever +5 and +50 rewards are applied.
C30_ExperienceRange ==
    /\ [](experience \in 0..(LevelExperience - 1) /\ level >= 1)
    /\ [][level' >= level]_vars

\* C30 witness: from experience 45 a hit reward and a defeat reward have
\* brought the sum to exactly 100: level 2 with experience 0.
C30_Witness ==
    /\ start.experience = 45
    /\ rewardLog = << 5, 50 >>
    /\ level = start.level + 1
    /\ experience = 0

\* C31 (as claimed): the target's health rises only from 0: a respawn timer
\* resets a defeated target and never raises the health of a live one.
C31_NoHealingRespawn ==
    [][ (scarecrow'.health > scarecrow.health) => scarecrow.health = 0 ]_vars

\* C32: the number of successful casts equals the hit counter plus the number
\* of live projectiles in every state; the list grows by one projectile and
\* only in a cast, and it shrinks only in a frame, by as many projectiles as
\* that frame counts hits.
C32_CastsAccounted ==
    /\ [](castCount = hitCount + Len(projectiles))
    /\ [][ /\ Len(projectiles') > Len(projectiles)
              => ( /\ castCount' = castCount + 1
                   /\ Len(projectiles') = Len(projectiles) + 1
                   /\ hitCount' = hitCount )
           /\ Len(projectiles') < Len(projectiles)
              => ( /\ castCount' = castCount
                   /\ hitCount' - hitCount
                          = Len(projectiles) - Len(projectiles') )
           /\ hitCount' # hitCount
              => Len(projectiles') < Len(projectiles) ]_vars

\* C32 witness: the one cast of a new session has flown for a frame, is
\* still live and no hit has been counted.
C32_Witness ==
    /\ castCount = 1
    /\ hitCount = 0
    /\ Len(projectiles) = 1
    /\ projectiles[1].age = 1

\* C33: with frames kept coming and no further cast, every projectile in
\* flight is eventually removed, by a frame that counts its hit, and the list
\* of live projectiles eventually becomes and stays empty; wherever it was
\* spawned (at the target itself included) and whether or not the target is
\* defeated meanwhile.
C33_ProjectilesResolve ==
    /\ \A id \in {3, 6} :  \* the ids FlightInit gives its projectiles
           (id \in IdsOf(projectiles)) ~> (id \notin IdsOf(projectiles))
    /\ <>[](projectiles = << >>)
    /\ [][ \A id \in IdsOf(projectiles) \ IdsOf(projectiles') :
               hitCount' > hitCount ]_vars

\* C33 witness: two projectiles have been resolved, the first of them
\* spawned at the target and the second landing on the defeated target.
C33_Witness ==
    /\ projectiles = << >>
    /\ hitCount = 26
    /\ defeats = 1
    /\ scarecrow.health = 0
    /\ rendered.handData.x = CanonicalX - 4 * ProjectileSpeed

\* C34: a charging machine has an active spell in every state; whenever a
\* release is processed (charging, palm, active spell s) the mana its render
\* read, and the mana stored, are at least s.manaCost, so the release appends
\* a projectile; and no run with a hand ends a charge without a projectile.
C34_ReleaseNeverRejected ==
    /\ [](isCharging => currentSpell # NoSpell)
    /\ [](rendered.isCharging => rendered.currentSpell # NoSpell)
    /\ [][ /\ ( /\ GestureRuns
                /\ SeenHand
                /\ rendered.isCharging
                /\ SeenGesture = "palm" )
              => ( /\ rendered.mana >= CostOf(rendered.currentSpell)
                   /\ mana >= CostOf(rendered.currentSpell)
                   /\ Len(projectiles') = Len(projectiles) + 1 )
           /\ ( /\ GestureRuns
                /\ SeenHand
                /\ isCharging
                /\ ~isCharging' )
              => Len(projectiles') = Len(projectiles) + 1 ]_vars

\* C34 witness: lightning, charged with exactly the 20 mana it costs (18 and
\* one regeneration tick), has been released: its projectile is in flight
\* and no mana is left.
C34_Witness ==
    /\ Len(projectiles) = 1
    /\ projectiles[1].spell = "lightning"
    /\ start.mana = 18
    /\ mana = 0
    /\ ~isCharging

\* the detection chains that still run: one waits for its animation frame
\* or for the model's answer
RunningLoops ==
    { l \in 1..Len(tracking.loops) : tracking.loops[l] \in {"frame", "estimating"} }

\* C35: at most one hand-detection loop runs at any time, and once stop()
\* has been called (and initialize not again) no hand data is published and
\* no detection asks for a further animation frame.
C35_OneLoopSilentAfterStop ==
    /\ [](Cardinality(RunningLoops) <= 1)
    /\ [][ (tracking.stopped /\ tracking'.stopped)
              => /\ now' = now
                 /\ tracking'.animationFrameRef = tracking.animationFrameRef
                 /\ \A l \in 1..Len(tracking.loops) :
                        tracking.loops[l] = "estimating"
                            => tracking'.loops[l] = "estimating" ]_vars

\* C36: at most one camera stream is live at any time, and a live stream is
\* the one streamRef holds: every other acquired stream has been stopped.
C36_OneLiveStream ==
    /\ Cardinality(camera.live) <= 1
    /\ \A s \in camera.live : s = camera.streamRef

=============================================================================
